---- MODULE Spec2Model ----
(***************************************************************************)
(* Model of the vehicle-finance store: FinanceDB (src/js/database.js),     *)
(* CustomerManager (src/unnamed/part_000) and the identities supplied by   *)
(* AuthSystem (src/js/auth.js).                                            *)
(*                                                                         *)
(* Spec is the engine after its open request has succeeded with an         *)
(* upgrade: the handle is set and the six object stores exist and are      *)
(* empty.  add / update / delete are promise executors: each opens a       *)
(* readwrite transaction on its store, calls logAudit (which opens a       *)
(* second, independent transaction on auditLog and returns without         *)
(* waiting), and queues its own request.  IndexedDB runs readwrite         *)
(* transactions with overlapping scopes in creation order and the others   *)
(* in any order; txq holds the transactions not yet run.                   *)
(*                                                                         *)
(* SpecRead is the read paths over stored records, SpecAccess the access   *)
(* check of CustomerManager, SpecIndex the creates on the stores with a    *)
(* unique index, SpecOpen the engine from its constructor on, with its     *)
(* open requests, their handlers and runSelfHealing, SpecCodec one use of  *)
(* EncryptionManager (src/unnamed/part_001), SpecStamp the updates of one  *)
(* record under a running clock, SpecAuth the engine under the sessions    *)
(* of AuthSystem, SpecPatch the createCustomer and updateCustomer calls,   *)
(* SpecRestore the replay of a backup into an empty database, and          *)
(* SpecOpenLive is SpecOpen with the upgradeneeded and success events of   *)
(* an open request delivered: the browser fires each event it has queued.  *)
(***************************************************************************)
EXTENDS Integers, Sequences, FiniteSets, TLC

\* ---------------------------------------------------------------- bounds
\* number of add / update / delete calls issued in one run
MaxCalls == 1
\* ids a caller can put in the data it passes: 1..MaxId
MaxId == 2
\* records in the backup a restore replays when it is the first call of a run
MaxRestore == 2
\* update calls in one run of the history of a record
MaxUpdates == 2
\* the last value of the clock
MaxClock == 3
\* open requests init() issues in one run
MaxOpens == 4

\* ------------------------------------------------------- JavaScript values
\* a property that is absent (data.id of a record without id, currentUser?.id
\* of a null user, a parameter left out)
Undefined == 0
\* the null of `user.financerId || null`
Null == 0 - 1

\* the string 'new' of `data.id || 'new'`
New == 0 - 2

Falsy(x) == x \in {Undefined, Null}

\* {...a, ...b}: the fields of b override those of a
Spread(a, b) == b @@ a

\* r[f], undefined when r has no such property
Field(r, f) == IF f \in DOMAIN r THEN r[f] ELSE Undefined

\* the values of a key -> record map
Values(m) == {m[k] : k \in DOMAIN m}

\* m without key k
Without(m, k) == [j \in DOMAIN m \ {k} |-> m[j]]

Max(a, b) == IF a >= b THEN a ELSE b

\* ---------------------------------------------------------------- schema
\* the object stores created by onupgradeneeded
StoreNames == {"users", "financers", "customers", "payments", "seizures", "auditLog"}

\* this.version, set by the constructor
version == 1

\* the stores the calls of a run are aimed at
CallStores == {"customers", "auditLog"}

\* ------------------------------------------------------------- identities
\* a tenant is a financer: its id is the financerId of its records
Tenants == {1, 2}

NoUser == [id |-> Undefined, role |-> "undefined", financerId |-> Undefined]
masterAdmin == [id |-> 5, role |-> "masterAdmin", financerId |-> Null]
financer1 == [id |-> 1, role |-> "financer", financerId |-> Null]
financer2 == [id |-> 2, role |-> "financer", financerId |-> Null]
employee1 == [id |-> 3, role |-> "employee", financerId |-> 1]
employee2 == [id |-> 4, role |-> "employee", financerId |-> 2]
\* a session whose role is none of the three the code knows
guest1 == [id |-> 6, role |-> "guest", financerId |-> 1]

\* the session data AuthSystem.login builds (auth.js 68-75), and null
Identities == {NoUser, masterAdmin, financer1, financer2, employee1, employee2, guest1}

\* the values setCurrentUser is called with in a run of the engine
Sessions == {NoUser, masterAdmin, financer1}

\* the tenant an identity belongs to: a financer is its own tenant, an
\* employee belongs to its financer
TenantOf(u) == IF u.role = "financer" THEN u.id ELSE u.financerId

\* ------------------------------------------------------------------ inputs
Ids == 1..MaxId

\* the data of a call on a business store
RecordInputs == [id : Ids \cup {Undefined}, financerId : Tenants]

\* the data of a call on auditLog: an audit entry of a backup
AuditInputs == [id : Ids \cup {Undefined}, userId : {5}, userRole : {"masterAdmin"},
                action : {"ADD"}, target : {"customers"}, targetId : {1}]

DataInputs(s) == IF s = "auditLog" THEN AuditInputs ELSE RecordInputs

VARIABLES
    currentUser,   \* FinanceDB.currentUser
    db,            \* store name -> (key -> record): the committed records
    keyGen,        \* store name -> current number of the store's key generator
    given,         \* store name -> the keys its records have had so far
    txq,           \* the transactions created and not yet run, in creation order
    calls,         \* call id -> the add / update / delete call, while in flight
    issued,        \* number of add / update / delete calls issued so far
    restore,       \* the restore call: its state and the records still to replay
    result,        \* what the step just taken delivered
    cm,            \* CustomerManager: isReady and currentUser
    probe,         \* an access check: the record asked about, and the answer
    idb,           \* the open request of init(): this.db and this.isReady
    codec,         \* a use of EncryptionManager: its input, its blob, its output
    now,           \* Date.now()
    auth,          \* AuthSystem.currentUser
    patches        \* the patches the updateCustomer calls so far were given

vars == <<currentUser, db, keyGen, given, txq, calls, issued, restore, result,
          cm, probe, idb, codec, now, auth, patches>>

\* what the steps of the engine leave alone
others == <<cm, probe, idb, codec, now, auth, patches>>

\* the step just taken delivered nothing
NoResult == [op |-> "none"]

NoRestore == [status |-> "idle", todo |-> << >>, wait |-> 0]

\* the n-th id of K, in increasing order
Nth(K, n) == CHOOSE i \in K : Cardinality({j \in K : j <= i}) = n

\* the stores as an earlier session of masterAdmin left them: it added the
\* customers K one by one, customer i for tenant f[i], and every add and its
\* logAudit went through
LeftBy(K, f) ==
    [s \in StoreNames |->
        CASE s = "customers" ->
                 [i \in K |-> [id |-> i, financerId |-> f[i], _encrypted |-> TRUE,
                                _timestamp |-> 1, _createdBy |-> masterAdmin.id]]
          [] s = "auditLog" ->
                 [n \in 1..Cardinality(K) |->
                     [id |-> n, userId |-> masterAdmin.id,
                      userRole |-> masterAdmin.role, action |-> "ADD",
                      target |-> "customers", targetId |-> Nth(K, n)]]
          [] OTHER -> << >>]

\* the key generators of stores whose keys were all given in order
Generators(d) == [s \in StoreNames |-> Max(1, 1 + Cardinality(DOMAIN d[s]))]

\* the keys of the records of the stores d
Keys(d) == [s \in StoreNames |-> DOMAIN d[s]]

\* the stores, key generators and keys given after masterAdmin added the
\* customers K
Left(K, f) ==
    LET d == LeftBy(K, f) IN [db |-> d, keyGen |-> Generators(d), given |-> Keys(d)]

\* the same after masterAdmin added customer 1 and deleted it: the store is
\* empty, its generator stays at 2, the trail holds the entries of both calls
LeftDeleted ==
    LET d == LeftBy({1}, 1 :> 2)
        e == [d["auditLog"][1] EXCEPT !.id = 2, !.action = "DELETE"]
    IN  [db |-> [d EXCEPT !["customers"] = << >>, !["auditLog"] = (2 :> e) @@ @],
         keyGen |-> [Generators(d) EXCEPT !["auditLog"] = 3],
         given |-> [Keys(d) EXCEPT !["auditLog"] = {1, 2}]]

\* EncryptionManager is not in use
NoCodec == [pc |-> "idle"]

\* init() is over: the open request succeeded and this.db is set
Opened == [handle |-> "set", isReady |-> TRUE, request |-> "done"]

\* CustomerManager after its constructor: init() runs to its end at once.
\* Where authSystem is defined it throws at authSystem.waitForReady (AuthSystem
\* has no such method) and isReady stays false; elsewhere isReady is true.
\* currentUser is assigned nowhere else
Constructed(authDefined) == [isReady |-> ~authDefined, currentUser |-> NoUser]

NoProbe == [record |-> << >>, asked |-> FALSE, visible |-> FALSE]

\* the database is opened either for the first time (onupgradeneeded creates
\* the six stores, empty) or on the stores of a previous session
Init ==
    /\ currentUser = NoUser
    /\ \E past \in {Left({}, << >>), Left({1}, 1 :> 2), LeftDeleted} :
           /\ db = past.db
           /\ keyGen = past.keyGen
           /\ given = past.given
    /\ txq = << >>
    /\ calls = << >>
    /\ issued = 0
    /\ restore = NoRestore
    /\ result = NoResult
    /\ now = 1
    /\ auth = NoUser
    /\ patches = {}
    /\ cm = Constructed(TRUE)
    /\ probe = NoProbe
    /\ idb = Opened
    /\ codec = NoCodec

\* ------------------------------------------------------------ FinanceDB

\* setCurrentUser(user)
SetCurrentUser(user) ==
    /\ user # currentUser
    /\ currentUser' = user
    /\ result' = NoResult
    /\ UNCHANGED <<db, keyGen, given, txq, calls, issued, restore, others>>

\* the auditEntry logAudit builds; it has no id, the store assigns it
AuditEntry(action, target, targetId) ==
    [userId |-> currentUser.id, userRole |-> currentUser.role,
     action |-> action, target |-> target, targetId |-> targetId]

\* logAudit(action, target, targetId), for call c: a transaction on auditLog
\* holding one add request; nothing waits for it, nothing handles its failure
logAudit(c, action, target, targetId) ==
    [call |-> c, kind |-> "audit", store |-> "auditLog", req |-> "add",
     value |-> AuditEntry(action, target, targetId)]

\* the promise executor of add / update / delete, for call c: the transaction
\* on storeName is created first, logAudit creates its own, then the request
\* is queued in the first
Executor(c, op, storeName, req, value, targetId) ==
    << [call |-> c, kind |-> "request", store |-> storeName, req |-> req,
        value |-> value],
       logAudit(c, op, storeName, targetId) >>

\* a call whose promise is pending
Pending(op, storeName) ==
    [op |-> op, store |-> storeName, state |-> "pending", key |-> Undefined,
     applied |-> FALSE, audit |-> "pending", auditKey |-> Undefined]

\* the record add stores
encryptedData(data) ==
    Spread(data, [_encrypted |-> TRUE, _timestamp |-> now,
                  _createdBy |-> currentUser.id])

\* add with store.put in the place of store.add
addByPut(c, storeName, data) ==
    Executor(c, "ADD", storeName, "put", encryptedData(data),
             IF Falsy(data.id) THEN New ELSE data.id)

\* add(storeName, data), as call c
add(c, storeName, data) ==
    Executor(c, "ADD", storeName, "add", encryptedData(data),
             IF Falsy(data.id) THEN New ELSE data.id)

\* update with the caller's data spread over the engine's stamps
updateUnstamped(c, storeName, data) ==
    Executor(c, "UPDATE", storeName, "put",
             Spread([_updatedAt |-> now, _updatedBy |-> currentUser.id], data),
             data.id)

\* update(storeName, data), as call c
update(c, storeName, data) ==
    Executor(c, "UPDATE", storeName, "put",
             Spread(data, [_updatedAt |-> now, _updatedBy |-> currentUser.id]),
             data.id)

\* delete(storeName, id), as call c
delete(c, storeName, id) ==
    Executor(c, "DELETE", storeName, "delete", id, id)

\* the calls a running restore has still to make are counted in the budget
Budget == issued + (IF restore.status = "running" THEN Len(restore.todo) ELSE 0)

\* a call runs its promise executor: its transactions are created
Issue(op, storeName, txs) ==
    /\ calls' = ((issued + 1) :> Pending(op, storeName)) @@ calls
    /\ txq' = txq \o txs
    /\ issued' = issued + 1
    /\ result' = NoResult
    /\ UNCHANGED <<currentUser, db, keyGen, given, restore, others>>

Start(op, storeName, txs) ==
    /\ Budget < MaxCalls
    /\ Issue(op, storeName, txs)

Add(storeName, data) == Start("ADD", storeName, add(issued + 1, storeName, data))

Update(storeName, data) == Start("UPDATE", storeName, update(issued + 1, storeName, data))

Delete(storeName, id) == Start("DELETE", storeName, delete(issued + 1, storeName, id))

\* restore(backupData): the records of backupData.data, store by store, each
\* replayed with `await this.add(storeName, record)`; the first add is issued
\* at once
Restore(snapshot) ==
    /\ restore.status = "idle"
    /\ \/ issued + Len(snapshot) <= MaxCalls
       \/ issued = 0 /\ Len(snapshot) <= MaxRestore
    /\ IF snapshot = << >>
       THEN /\ restore' = [status |-> "complete", todo |-> << >>, wait |-> 0]
            /\ UNCHANGED <<calls, txq, issued>>
       ELSE /\ restore' = [status |-> "running", todo |-> Tail(snapshot),
                           wait |-> issued + 1]
            /\ calls' = ((issued + 1) :> Pending("ADD", snapshot[1][1])) @@ calls
            /\ txq' = txq \o add(issued + 1, snapshot[1][1], snapshot[1][2])
            /\ issued' = issued + 1
    /\ result' = NoResult
    /\ UNCHANGED <<currentUser, db, keyGen, given, others>>

\* ------------------------------------------------------------ IndexedDB

\* a transaction starts once no transaction created before it has its store
\* in scope
CanRun(k) == \A j \in 1..(k - 1) : txq[j].store # txq[k].store

Remove(q, k) == SubSeq(q, 1, k - 1) \o SubSeq(q, k + 1, Len(q))

\* the key of a record under keyPath 'id' with autoIncrement: the record's
\* own id, or the generator's current number
KeyOf(s, value) == IF Falsy(Field(value, "id")) THEN keyGen[s] ELSE value.id

\* the unique indexes createIndex(..., { unique: true }) puts on a store, by
\* their keyPath
UniqueIndexes(s) ==
    CASE s = "users" -> {"email"}
      [] s = "customers" -> {"vehicleNo"}
      [] OTHER -> {}

\* a record of m other than the one under key holds the value rec has at the
\* keyPath of a unique index; a record with nothing at the keyPath is not in
\* the index
Clash(s, key, rec, m) ==
    \E f \in UniqueIndexes(s) : \E k \in DOMAIN m \ {key} :
        /\ ~Falsy(Field(rec, f))
        /\ Field(m[k], f) = Field(rec, f)

\* the outcome of the request of transaction t: whether it succeeds, the key
\* it yields, the store and its key generator after it
Outcome(t) ==
    LET s == t.store
        m == db[s]
    IN  IF t.req = "delete"
        THEN [ok |-> TRUE, key |-> t.value, gen |-> keyGen[s], inserted |-> FALSE,
              map |-> Without(m, t.value)]
        ELSE LET key == KeyOf(s, t.value)
                 rec == Spread(t.value, [id |-> key])
             IN  IF (t.req = "add" /\ key \in DOMAIN m) \/ Clash(s, key, rec, m)
                 THEN \* ConstraintError: the request fails, the transaction aborts
                      [ok |-> FALSE, key |-> key, gen |-> keyGen[s],
                       inserted |-> FALSE, map |-> m]
                 ELSE [ok |-> TRUE, key |-> key, gen |-> Max(keyGen[s], key + 1),
                       inserted |-> key \notin DOMAIN m,
                       map |-> (key :> rec) @@ m]

\* what the step that ends call c delivers: the call as it ended
Settled(cr) ==
    IF cr.state # "pending" /\ cr.audit # "pending"
    THEN [op |-> "settled", call |-> cr]
    ELSE NoResult

\* a call leaves `calls` when its request and its audit transaction are over
After(c, cr) ==
    IF cr.state # "pending" /\ cr.audit # "pending"
    THEN Without(calls, c)
    ELSE [calls EXCEPT ![c] = cr]

\* the transaction of a call's own request runs: onsuccess resolves the
\* call's promise, onerror rejects it.  A restore awaiting the call goes on in
\* the same turn: to its next add, to `return true`, or to its catch block
RunRequest(k) ==
    LET t == txq[k]
        o == Outcome(t)
        c == t.call
        cr == [calls[c] EXCEPT !.state = IF o.ok THEN "resolved" ELSE "rejected",
                               !.key = o.key, !.applied = o.ok]
        awaited == restore.status = "running" /\ restore.wait = c
        more == awaited /\ o.ok /\ restore.todo # << >>
        n == issued + 1
    IN  /\ t.kind = "request"
        /\ CanRun(k)
        /\ db' = [db EXCEPT ![t.store] = o.map]
        /\ keyGen' = [keyGen EXCEPT ![t.store] = o.gen]
        /\ given' = [given EXCEPT ![t.store] = @ \cup DOMAIN o.map]
        /\ restore' = IF ~awaited THEN restore
                      ELSE IF ~o.ok THEN [restore EXCEPT !.status = "failed", !.wait = 0]
                      ELSE IF more THEN [restore EXCEPT !.todo = Tail(@), !.wait = n]
                      ELSE [restore EXCEPT !.status = "complete", !.wait = 0]
        /\ calls' = IF more
                    THEN (n :> Pending("ADD", restore.todo[1][1])) @@ After(c, cr)
                    ELSE After(c, cr)
        /\ txq' = IF more
                  THEN Remove(txq, k) \o add(n, restore.todo[1][1], restore.todo[1][2])
                  ELSE Remove(txq, k)
        /\ issued' = IF more THEN n ELSE issued
        /\ result' = Settled(cr)
        /\ UNCHANGED <<currentUser, others>>

\* the transaction logAudit created runs and commits
RunAudit(k) ==
    LET t == txq[k]
        o == Outcome(t)
        c == t.call
        cr == [calls[c] EXCEPT !.audit = "persisted", !.auditKey = o.key]
    IN  /\ t.kind = "audit"
        /\ CanRun(k)
        /\ db' = [db EXCEPT ![t.store] = o.map]
        /\ keyGen' = [keyGen EXCEPT ![t.store] = o.gen]
        /\ given' = [given EXCEPT ![t.store] = @ \cup DOMAIN o.map]
        /\ calls' = After(c, cr)
        /\ txq' = Remove(txq, k)
        /\ result' = Settled(cr)
        /\ UNCHANGED <<currentUser, issued, restore, others>>

\* the transaction logAudit created fails (quota exceeded, abort): the entry
\* is not stored, the key generator is not advanced, and no handler is told
FailAudit(k) ==
    LET t == txq[k]
        c == t.call
        cr == [calls[c] EXCEPT !.audit = "failed"]
    IN  /\ t.kind = "audit"
        /\ CanRun(k)
        /\ calls' = After(c, cr)
        /\ txq' = Remove(txq, k)
        /\ result' = Settled(cr)
        /\ UNCHANGED <<currentUser, db, keyGen, given, issued, restore, others>>

\* --------------------------------------------------------------- reads

\* getAll(storeName, financerId = null): the records of the store, narrowed
\* to financerId when one is passed and the current user is not masterAdmin
getAll(storeName, financerId) ==
    LET results == Values(db[storeName]) IN
    IF ~Falsy(financerId) /\ currentUser.role # "masterAdmin"
    THEN {r \in results : Field(r, "financerId") = financerId}
    ELSE results

\* getAuditLogs without its role check
getAuditLogsUngated(financerId) == getAll("auditLog", financerId)

\* getAuditLogs(financerId = null)
getAuditLogs(financerId) ==
    IF currentUser.role # "masterAdmin"
    THEN {}
    ELSE getAll("auditLog", financerId)

\* backup(): every store through getAll(storeName)
backup ==
    [s \in StoreNames |-> getAll(s, Null)]

\* what a read hands to its caller: the records, by the store they come from
Listing(op, out) ==
    [op |-> op, user |-> currentUser, ok |-> TRUE, out |-> out]

Only(storeName, records) == [s \in StoreNames |-> IF s = storeName THEN records ELSE {}]

Read(r) ==
    /\ result' = r
    /\ UNCHANGED <<currentUser, db, keyGen, given, txq, calls, issued, restore, others>>

GetAll(storeName, financerId) ==
    Read(Listing("getAll", Only(storeName, getAll(storeName, financerId))))

GetAuditLogs(financerId) ==
    Read(Listing("getAuditLogs", Only("auditLog", getAuditLogs(financerId))))

Backup == Read(Listing("backup", backup))

\* ------------------------------------------------------ CustomerManager

\* what calling a method the object does not have, or awaiting the rejected
\* readyPromise, throws
TypeError == [throws |-> "TypeError"]

\* what a call that returns normally throws
Nothing == [throws |-> "nothing"]

\* the promise of waitForReady(): isReady, or else whatever readyPromise
\* settled to
waitForReady == IF cm.isReady THEN Nothing ELSE TypeError

\* what a lookup that finds nothing yields
NoRecord == [id |-> Undefined]

\* a lookup by key in the records m of a store
Lookup(m, id) == IF id \in DOMAIN m THEN m[id] ELSE NoRecord

\* financeDB.get('customers', id), m being the records of the store:
\* FinanceDB defines no get, so the call throws
get(m, id) == TypeError

\* applyRoleBasedFilter(customers)
applyRoleBasedFilter(customers) ==
    IF cm.currentUser = NoUser THEN {}
    ELSE IF cm.currentUser.role = "masterAdmin" THEN customers
    ELSE IF cm.currentUser.role = "financer"
         THEN {c \in customers : Field(c, "financerId") = cm.currentUser.id}
    ELSE IF cm.currentUser.role = "employee"
         THEN {c \in customers : Field(c, "financerId") = cm.currentUser.financerId}
    ELSE {}

\* canAccessCustomer with the financer compared like the employee, by the
\* financerId of the session
canAccessCustomerByFinancerId(customer) ==
    IF cm.currentUser = NoUser THEN FALSE
    ELSE IF cm.currentUser.role = "masterAdmin" THEN TRUE
    ELSE IF cm.currentUser.role \in {"financer", "employee"}
         THEN Field(customer, "financerId") = cm.currentUser.financerId
    ELSE FALSE

\* canAccessCustomer(customer)
canAccessCustomer(customer) ==
    IF cm.currentUser = NoUser THEN FALSE
    ELSE IF cm.currentUser.role = "masterAdmin" THEN TRUE
    ELSE IF cm.currentUser.role = "financer"
         THEN Field(customer, "financerId") = cm.currentUser.id
    ELSE IF cm.currentUser.role = "employee"
         THEN Field(customer, "financerId") = cm.currentUser.financerId
    ELSE FALSE

\* the reply of a method whose try block threw
Failure(op, message) ==
    [op |-> op, user |-> currentUser, ok |-> FALSE, message |-> message,
     out |-> Only("customers", {})]

\* getAllCustomers(filters = {}): none of the optional filters is set; the
\* sort reorders the listing and leaves its members
getAllCustomers ==
    IF waitForReady = TypeError
    THEN Failure("getAllCustomers", "Failed to load customers")
    ELSE Listing("getAllCustomers",
                 Only("customers", applyRoleBasedFilter(getAll("customers", Null))))

\* searchCustomers(searchParams), with no search parameter set
searchCustomers ==
    IF waitForReady = TypeError
    THEN Failure("searchCustomers", "Search failed")
    ELSE Listing("searchCustomers",
                 Only("customers", applyRoleBasedFilter(getAll("customers", Null))))

\* getCustomer(customerId), on the customers store `customers`
getCustomer(customers, customerId) ==
    IF waitForReady = TypeError
    THEN Failure("getCustomer", "Failed to load customer")
    ELSE LET customer == get(customers, customerId) IN
         IF customer = TypeError
         THEN Failure("getCustomer", "Failed to load customer")
         ELSE IF customer = NoRecord
         THEN Failure("getCustomer", "Customer not found")
         ELSE IF ~canAccessCustomer(customer)
         THEN Failure("getCustomer", "Permission denied")
         ELSE Listing("getCustomer", Only("customers", {customer}))

GetAllCustomers == Read(getAllCustomers)

SearchCustomers == Read(searchCustomers)

GetCustomer(customerId) ==
    Read(getCustomer(db["customers"], customerId) @@ [id |-> customerId])

\* ------------------------------------------------------------------ inputs

\* the records of a snapshot, in the order restore replays them; a record
\* that getAll read from a store carries its key in id
SnapshotEntries ==
    UNION {{<<s, d>> : d \in {x \in DataInputs(s) : x.id \in Ids}} : s \in CallStores}

Snapshots == UNION {[1..n -> SnapshotEntries] : n \in 0..MaxRestore}

Next ==
    \/ \E u \in Sessions : SetCurrentUser(u)
    \/ \E s \in CallStores : \E d \in DataInputs(s) : Add(s, d)
    \/ \E s \in CallStores : \E d \in DataInputs(s) : Update(s, d)
    \/ \E s \in CallStores : \E i \in Ids : Delete(s, i)
    \/ \E snapshot \in Snapshots : Restore(snapshot)
    \/ \E k \in 1..Len(txq) : RunRequest(k)
    \/ \E k \in 1..Len(txq) : RunAudit(k)
    \/ \E k \in 1..Len(txq) : FailAudit(k)

\* the engine: calls, their transactions, restore
Spec == Init /\ [][Next]_vars

\* ------------------------------------------------------------ read paths

\* the financerId argument of a read: left out, or a tenant
FinancerArgs == {Null} \cup Tenants

\* the reads are taken on the stores an earlier session left, with no call in
\* flight; CustomerManager was constructed with or without authSystem
InitRead ==
    /\ currentUser = NoUser
    /\ \E K \in SUBSET Ids : \E f \in [K -> Tenants] : db = LeftBy(K, f)
    /\ keyGen = Generators(db)
    /\ given = Keys(db)
    /\ txq = << >>
    /\ calls = << >>
    /\ issued = 0
    /\ restore = NoRestore
    /\ result = NoResult
    /\ now = 1
    /\ auth = NoUser
    /\ patches = {}
    /\ \E authDefined \in BOOLEAN : cm = Constructed(authDefined)
    /\ probe = NoProbe
    /\ idb = Opened
    /\ codec = NoCodec

NextRead ==
    \/ \E u \in Sessions : SetCurrentUser(u)
    \/ \E s \in CallStores : \E f \in FinancerArgs : GetAll(s, f)
    \/ \E f \in FinancerArgs : GetAuditLogs(f)
    \/ Backup
    \/ GetAllCustomers
    \/ SearchCustomers
    \/ \E i \in Ids : GetCustomer(i)

SpecRead == InitRead /\ [][NextRead]_vars

\* ---------------------------------------------------------- unique indexes

\* the e-mail addresses and the vehicle registration numbers of a run
Emails == {1, 2}
Numbers == {1, 2}

\* the newUser of AuthSystem.createUser and the customer of
\* CustomerManager.createCustomer, as far as they matter to the indexes: the
\* vehicle number is customer.vehicle.registrationNumber
IndexInputs(s) ==
    IF s = "users"
    THEN [id : Ids \cup {Undefined}, email : Emails]
    ELSE [id : Ids \cup {Undefined}, financerId : Tenants,
          vehicle : [registrationNumber : Numbers]]

\* the stores after masterAdmin created user 1 and customer 1
LeftIndexed ==
    LET d == LeftBy({1}, 1 :> 1)
        u == [id |-> 1, email |-> 1, _encrypted |-> TRUE, _timestamp |-> 1,
              _createdBy |-> masterAdmin.id]
        e == [d["auditLog"][1] EXCEPT !.id = 2, !.target = "users"]
    IN  [d EXCEPT !["users"] = 1 :> u,
                  !["customers"] = 1 :> ([vehicle |-> [registrationNumber |-> 1]]
                                         @@ d["customers"][1]),
                  !["auditLog"] = (2 :> e) @@ @]

InitIndex ==
    /\ currentUser = NoUser
    /\ db \in {LeftBy({}, << >>), LeftIndexed}
    /\ keyGen = Generators(db)
    /\ given = Keys(db)
    /\ txq = << >>
    /\ calls = << >>
    /\ issued = 0
    /\ restore = NoRestore
    /\ result = NoResult
    /\ now = 1
    /\ auth = NoUser
    /\ patches = {}
    /\ cm = Constructed(TRUE)
    /\ probe = NoProbe
    /\ idb = Opened
    /\ codec = NoCodec

NextIndex ==
    \/ \E u \in Sessions : SetCurrentUser(u)
    \/ \E s \in {"users", "customers"} : \E d \in IndexInputs(s) : Add(s, d)
    \/ \E k \in 1..Len(txq) : RunRequest(k)
    \/ \E k \in 1..Len(txq) : RunAudit(k)
    \/ \E k \in 1..Len(txq) : FailAudit(k)

\* creates on the two stores that carry a unique index
SpecIndex == InitIndex /\ [][NextIndex]_vars

\* ---------------------------------------------------------- access filter

\* the records an access check is asked about
ProbeRecords == [id : Ids, financerId : Tenants \cup {Null, Undefined}]

\* canAccessCustomer reads this.currentUser: the check is set up with each
\* identity in turn
InitAccess ==
    /\ currentUser = NoUser
    /\ db = LeftBy({}, << >>)
    /\ keyGen = Generators(db)
    /\ given = Keys(db)
    /\ txq = << >>
    /\ calls = << >>
    /\ issued = 0
    /\ restore = NoRestore
    /\ result = NoResult
    /\ now = 1
    /\ auth = NoUser
    /\ patches = {}
    /\ \E u \in Identities : cm = [isReady |-> TRUE, currentUser |-> u]
    /\ \E r \in ProbeRecords : probe = [record |-> r, asked |-> FALSE, visible |-> FALSE]
    /\ idb = Opened
    /\ codec = NoCodec

CanAccessCustomer ==
    /\ ~probe.asked
    /\ probe' = [probe EXCEPT !.asked = TRUE,
                              !.visible = canAccessCustomer(probe.record)]
    /\ UNCHANGED <<currentUser, db, keyGen, given, txq, calls, issued, restore, result, cm, idb, codec,
                   now, auth, patches>>

NextAccess == CanAccessCustomer

SpecAccess == InitAccess /\ [][NextAccess]_vars

\* ------------------------------------------------------------ AuthSystem

\* login(username, password): without an active user of that name and
\* password it reports so; with one it calls financeDB.update('users',
\* user.id, user), whose data parameter is then the id, a string: the
\* assignment data._updatedAt = ... throws a TypeError in the promise
\* executor, the await rejects and the catch block answers.  The lines that
\* set this.currentUser and call financeDB.setCurrentUser are not reached
login(found) ==
    IF found
    THEN Failure("login", "Login failed. Please try again.")
    ELSE Failure("login", "Invalid username or password")

Login(id) ==
    /\ result' = login(id \in DOMAIN db["users"]) @@ [id |-> id]
    /\ UNCHANGED <<currentUser, db, keyGen, given, txq, calls, issued, restore,
                   others>>

\* logout()
Logout ==
    /\ auth # NoUser \/ currentUser # NoUser
    /\ auth' = NoUser
    /\ currentUser' = NoUser
    /\ result' = NoResult
    /\ UNCHANGED <<db, keyGen, given, txq, calls, issued, restore, cm, probe,
                   idb, codec, now, patches>>

\* the constructors have run: AuthSystem.init took the session found in
\* localStorage, if any, as its currentUser; FinanceDB.currentUser is null
InitAuth ==
    /\ currentUser = NoUser
    /\ db \in {LeftBy({}, << >>), LeftIndexed}
    /\ keyGen = Generators(db)
    /\ given = Keys(db)
    /\ txq = << >>
    /\ calls = << >>
    /\ issued = 0
    /\ restore = NoRestore
    /\ result = NoResult
    /\ now = 1
    /\ auth \in Sessions
    /\ patches = {}
    /\ cm = Constructed(TRUE)
    /\ probe = NoProbe
    /\ idb = Opened
    /\ codec = NoCodec

NextAuth ==
    \/ \E i \in Ids : Login(i)
    \/ Logout
    \/ \E s \in CallStores : \E d \in DataInputs(s) : Add(s, d)
    \/ \E s \in CallStores : \E d \in DataInputs(s) : Update(s, d)
    \/ \E s \in CallStores : \E i \in Ids : Delete(s, i)
    \/ \E k \in 1..Len(txq) : RunRequest(k)
    \/ \E k \in 1..Len(txq) : RunAudit(k)
    \/ \E k \in 1..Len(txq) : FailAudit(k)

\* the engine under the sessions of AuthSystem
SpecAuth == InitAuth /\ [][NextAuth]_vars

\* ---------------------------------------------------------------- stamps

\* the data of an update of customer 1 whose caller sets the provenance
\* fields itself: another user as author, times the clock has not reached
StampedInputs ==
    {[id |-> 1, financerId |-> 1, _createdBy |-> employee2.id, _timestamp |-> t,
      _updatedBy |-> employee2.id, _updatedAt |-> t]
        : t \in {MaxClock + 1, MaxClock + 2}}

\* Date.now() never goes back
Tick ==
    /\ now < MaxClock
    /\ now' = now + 1
    /\ result' = NoResult
    /\ UNCHANGED <<currentUser, db, keyGen, given, txq, calls, issued, restore,
                   cm, probe, idb, codec, auth, patches>>

\* masterAdmin created customer 1 at time 1 in an earlier session
InitStamp ==
    /\ currentUser = NoUser
    /\ db = LeftBy({1}, 1 :> 1)
    /\ keyGen = Generators(db)
    /\ given = Keys(db)
    /\ txq = << >>
    /\ calls = << >>
    /\ issued = 0
    /\ restore = NoRestore
    /\ result = NoResult
    /\ now = 1
    /\ auth = NoUser
    /\ patches = {}
    /\ cm = Constructed(TRUE)
    /\ probe = NoProbe
    /\ idb = Opened
    /\ codec = NoCodec

NextStamp ==
    \/ \E u \in Sessions : SetCurrentUser(u)
    \/ Tick
    \/ \E d \in StampedInputs :
           /\ issued < MaxUpdates
           /\ Issue("UPDATE", "customers", update(issued + 1, "customers", d))
    \/ \E k \in 1..Len(txq) : RunRequest(k)
    \/ \E k \in 1..Len(txq) : RunAudit(k)
    \/ \E k \in 1..Len(txq) : FailAudit(k)

\* the updates of one record under a running clock
SpecStamp == InitStamp /\ [][NextStamp]_vars

\* --------------------------------------------------------------- restore

\* the records of the backup taken after masterAdmin created customer 1, in
\* the order restore replays them: customers before auditLog
BackedUp ==
    LET d == LeftBy({1}, 1 :> 2)
    IN  << <<"customers", d["customers"][1]>>, <<"auditLog", d["auditLog"][1]>> >>

\* the six stores are empty
InitRestore ==
    /\ currentUser = NoUser
    /\ db = LeftBy({}, << >>)
    /\ keyGen = Generators(db)
    /\ given = Keys(db)
    /\ txq = << >>
    /\ calls = << >>
    /\ issued = 0
    /\ restore = NoRestore
    /\ result = NoResult
    /\ now = 1
    /\ auth = NoUser
    /\ patches = {}
    /\ cm = Constructed(TRUE)
    /\ probe = NoProbe
    /\ idb = Opened
    /\ codec = NoCodec

NextRestore ==
    \/ \E u \in Sessions : SetCurrentUser(u)
    \/ Tick
    \/ Restore(BackedUp)
    \/ \E k \in 1..Len(txq) : RunRequest(k)
    \/ \E k \in 1..Len(txq) : RunAudit(k)
    \/ \E k \in 1..Len(txq) : FailAudit(k)

\* a backup restored into an empty database
SpecRestore == InitRestore /\ [][NextRestore]_vars

\* ------------------------------------------------------------- readiness

\* the constructor has run: this.db = null, this.isReady = false, this.version
\* = 1, and init() has issued indexedDB.open and returned, so readyPromise is
\* resolved.  The database is new (the open request will upgrade) or exists
\* already.  opens counts the open requests issued, failures the requests
\* that failed since the last success, connections the connections opened
\* (none is ever closed), blocked the requests waiting for them to close
Opening(isNew) ==
    [handle |-> "null", isReady |-> FALSE, request |-> "pending", isNew |-> isNew,
     opens |-> 1, version |-> version, failures |-> 0, connections |-> 0,
     blocked |-> 0]

\* FinanceDB.waitForReady(): isReady, or else the end of readyPromise, which
\* resolved when init() returned; it comes back in either case
dbWaitForReady == Nothing

\* this.db.transaction([storeName], mode): a property read of null throws a
\* TypeError, a connection that is still upgrading refuses with an
\* InvalidStateError, and a store the database does not have is a
\* NotFoundError
transaction(storeName) ==
    IF idb.handle = "null" THEN TypeError
    ELSE IF idb.request = "upgrading" THEN [throws |-> "InvalidStateError"]
    ELSE IF storeName \notin DOMAIN db THEN [throws |-> "NotFoundError"]
    ELSE Nothing

\* the calls of FinanceDB that open a transaction
EngineCalls == {"add", "getAll", "update", "delete", "logAudit", "backup"}

\* the first thing a call does with the handle: add after waitForReady, the
\* others at once; logAudit works on auditLog, backup starts with users
Attempt(op, storeName) ==
    LET s == CASE op = "logAudit" -> "auditLog"
               [] op = "backup" -> "users"
               [] OTHER -> storeName
        t == IF op = "add" /\ dbWaitForReady # Nothing THEN dbWaitForReady
             ELSE transaction(s)
    IN  Read([op |-> op, store |-> s, handle |-> idb.handle, throws |-> t.throws])

\* backup() from its first line to its return: version is this.version, and
\* each of the six stores goes through getAll, whose transaction throws for
\* the first store the handle cannot open
backupData ==
    LET refused == {s \in StoreNames : transaction(s) # Nothing} IN
    IF refused # {}
    THEN [op |-> "backupData", ok |-> FALSE,
          throws |-> transaction(CHOOSE s \in refused : TRUE).throws]
    ELSE [op |-> "backupData", ok |-> TRUE, version |-> idb.version,
          data |-> backup]

BackupData == Read(backupData)

\* a step of init() or of one of the handlers of its request
OpenStep(i, d, event) ==
    /\ idb' = i
    /\ db' = d
    /\ result' = [op |-> event]
    /\ UNCHANGED <<currentUser, keyGen, given, txq, calls, issued, restore,
                   cm, probe, codec, now, auth, patches>>

\* init() with a this.version++ before its open request
initBumping(i) ==
    [i EXCEPT !.opens = @ + 1, !.request = "pending", !.version = @ + 1]

\* init(): indexedDB.open(this.dbName, this.version).  A request for a
\* version above the database's waits for every open connection to close:
\* the engine closes none and handles neither versionchange nor blocked
init(i) ==
    IF i.connections > 0 /\ i.version > version
    THEN [i EXCEPT !.opens = @ + 1, !.blocked = @ + 1]
    ELSE [i EXCEPT !.opens = @ + 1, !.request = "pending"]

\* the stores runSelfHealing looks for
HealedStores == {"users", "financers", "customers", "payments", "seizures"}

\* runSelfHealing(): without a handle it calls init(); with one, each store
\* of its list the database lacks costs one this.version++ and one init()
runSelfHealing(i) ==
    LET n == Cardinality(HealedStores \ DOMAIN db) IN
    IF i.handle = "null"
    THEN init(i)
    ELSE [i EXCEPT !.version = @ + n, !.opens = @ + n, !.blocked = @ + n]

\* request.onupgradeneeded creates the stores the database lacks
createObjectStores(d) ==
    [s \in StoreNames |-> IF s \in DOMAIN d THEN d[s] ELSE << >>]

\* request.onupgradeneeded
OnUpgradeNeeded ==
    /\ idb.request = "pending"
    /\ idb.isNew
    /\ OpenStep([idb EXCEPT !.handle = "set", !.isReady = TRUE,
                            !.request = "upgrading", !.isNew = FALSE],
                createObjectStores(db), "onupgradeneeded")

\* request.onsuccess: this.db = request.result; runHealthCheck reads the
\* stores the database has and changes nothing
onsuccess(i) ==
    [i EXCEPT !.handle = "set", !.request = "done", !.failures = 0,
              !.connections = @ + 1]

OnSuccess ==
    /\ \/ idb.request = "upgrading"
       \/ idb.request = "pending" /\ ~idb.isNew
    /\ OpenStep(onsuccess(idb), db, "onsuccess")

\* request.onerror: runSelfHealing
OnError ==
    LET i == runSelfHealing([idb EXCEPT !.request = "done", !.failures = @ + 1])
    IN  /\ idb.request = "pending"
        /\ i.opens <= MaxOpens
        /\ OpenStep(i, db, "onerror")

\* init() called again on the open store
Reinit ==
    /\ idb.request = "done"
    /\ idb.opens < MaxOpens
    /\ OpenStep(init(idb), db, "init")

\* runSelfHealing() called on the open store
RunSelfHealing ==
    LET i == runSelfHealing(idb)
    IN  /\ idb.request = "done"
        /\ i.opens <= MaxOpens
        /\ OpenStep(i, db, "runSelfHealing")

\* auth.js has not run yet: there is no AuthSystem
Unconstructed == [id |-> Undefined, role |-> "unconstructed", financerId |-> Undefined]

\* createDefaultMasterAdmin(): getAll('users') throws where the handle can
\* open no transaction on users, and the catch block logs the error; else
\* the default masterAdmin is added unless users holds a masterAdmin
createDefaultMasterAdmin ==
    IF transaction("users") # Nothing
    THEN db
    ELSE IF \E u \in Values(db["users"]) : Field(u, "role") = "masterAdmin"
    THEN db
    ELSE [db EXCEPT !["users"] =
             (masterAdmin.id :> encryptedData([id |-> masterAdmin.id,
                                               role |-> "masterAdmin"])) @@ @]

\* the AuthSystem constructor and its init(): the session found in
\* localStorage becomes currentUser, then createDefaultMasterAdmin runs; the
\* add it makes and the audit entry of that add are stored before any other
\* step, no other call being in flight
AuthInit(session) ==
    LET d == createDefaultMasterAdmin
        logged == d # db /\ "auditLog" \in DOMAIN db
        n == keyGen["auditLog"]
        entry == [id |-> n] @@ AuditEntry("ADD", "users", masterAdmin.id)
    IN  /\ auth = Unconstructed
        /\ auth' = session
        /\ db' = IF logged THEN [d EXCEPT !["auditLog"] = (n :> entry) @@ @] ELSE d
        /\ keyGen' = IF logged THEN [keyGen EXCEPT !["auditLog"] = n + 1] ELSE keyGen
        /\ given' = [s \in StoreNames |->
                        IF s \in DOMAIN db' THEN given[s] \cup DOMAIN db'[s]
                        ELSE given[s]]
        /\ result' = [op |-> "createDefaultMasterAdmin",
                      throws |-> transaction("users").throws]
        /\ UNCHANGED <<currentUser, txq, calls, issued, restore, cm, probe, idb,
                       codec, now, patches>>

\* the stores an existing database may lack when it is opened
Damaged == {{}, {"auditLog"}, {"customers"}, {"customers", "payments"}}

InitOpen ==
    /\ currentUser = NoUser
    /\ \E isNew \in BOOLEAN :
           /\ idb = Opening(isNew)
           /\ IF isNew
              THEN db = << >>
              ELSE \E lost \in Damaged :
                       db = [s \in StoreNames \ lost |-> LeftBy({1}, 1 :> 2)[s]]
    /\ keyGen = Generators(LeftBy({1}, 1 :> 2))
    /\ given = Keys(LeftBy({1}, 1 :> 2))
    /\ txq = << >>
    /\ calls = << >>
    /\ issued = 0
    /\ restore = NoRestore
    /\ result = NoResult
    /\ now = 1
    /\ auth = Unconstructed
    /\ patches = {}
    /\ cm = Constructed(TRUE)
    /\ probe = NoProbe
    /\ codec = NoCodec

NextOpen ==
    \/ \E u \in Sessions : SetCurrentUser(u)
    \/ OnUpgradeNeeded
    \/ OnSuccess
    \/ OnError
    \/ Reinit
    \/ RunSelfHealing
    \/ \E u \in Sessions : AuthInit(u)
    \/ \E op \in EngineCalls : \E s \in CallStores : Attempt(op, s)
    \/ BackupData

\* the engine from its constructor on, with calls arriving at any time
SpecOpen == InitOpen /\ [][NextOpen]_vars

\* the same, with the browser delivering the events of an open request: an
\* upgradeneeded or success event that is due is dispatched in the end
SpecOpenLive ==
    SpecOpen /\ WF_vars(OnUpgradeNeeded) /\ WF_vars(OnSuccess)

\* ---------------------------------------------------------------- patches

\* the fields an updateCustomer call changes
Patches == {[name |-> 2], [phone |-> 2], [id |-> 2, financerId |-> 2]}

\* updateCustomer that merges the patch into the stored record and has it
\* put
updateCustomerMerging(customers, customerId, updates) ==
    IF customerId \notin DOMAIN customers
    THEN Failure("updateCustomer", "Customer not found")
    ELSE [op |-> "updateCustomer", user |-> currentUser, ok |-> TRUE,
          customer |-> Spread(customers[customerId], updates)]

\* updateCustomer(customerId, updates), on the customers store `customers`.
\* Past the permission check it merges and calls financeDB.update(
\* 'customers', customerId, updatedCustomer): the data parameter is the id,
\* update throws as in login, and the catch block answers
updateCustomer(customers, customerId, updates) ==
    IF waitForReady = TypeError
    THEN Failure("updateCustomer", "Failed to update customer")
    ELSE LET customer == get(customers, customerId) IN
         IF customer = TypeError
         THEN Failure("updateCustomer", "Failed to update customer")
         ELSE IF customer = NoRecord
         THEN Failure("updateCustomer", "Customer not found")
         ELSE IF ~canAccessCustomer(customer)
                 \/ auth.role \notin {"masterAdmin", "financer"}
         THEN Failure("updateCustomer", "Permission denied")
         ELSE Failure("updateCustomer", "Failed to update customer")

\* the customers store after a call: a reply of success means its record was
\* stored under its id
Stored(r) ==
    IF r.ok
    THEN [db EXCEPT !["customers"] = (r.customer.id :> r.customer) @@ @]
    ELSE db

UpdateCustomer(customerId, updates) ==
    LET r == updateCustomer(db["customers"], customerId, updates)
    IN  /\ [id |-> customerId, updates |-> updates] \notin patches
        /\ result' = [id |-> customerId, updates |-> updates] @@ r
        /\ patches' = patches \cup {[id |-> customerId, updates |-> updates]}
        /\ db' = Stored(r)
        /\ UNCHANGED <<currentUser, keyGen, given, txq, calls, issued, restore,
                       cm, probe, idb, codec, now, auth>>

\* what createCustomer is given: the fields its checks and its tenancy read
CustomerInputs == [phone : Ids, aadharNumber : Ids, financerId : Tenants]

\* findExistingCustomer(phone, aadharNumber): a failed getAll is caught and
\* answered with null
findExistingCustomer(customers, phone, aadharNumber) ==
    LET twins == {c \in Values(customers) :
                     \/ Field(c, "phone") = phone
                     \/ Field(c, "aadharNumber") = aadharNumber}
    IN  IF transaction("customers") # Nothing \/ twins = {}
        THEN NoRecord
        ELSE CHOOSE c \in twins : TRUE

\* createCustomer without its checks, taking the tenant from customerData
createCustomerUnchecked(customers, customerData) ==
    [op |-> "createCustomer", user |-> currentUser, ok |-> TRUE,
     customer |-> Spread(customerData, [id |-> keyGen["customers"]])]

\* createCustomer(customerData), with valid data, on the customers store
\* `customers`.  Building the record reads this.currentUser.role, which
\* throws on the null CustomerManager.currentUser is
createCustomer(customers, customerData) ==
    IF waitForReady = TypeError
    THEN Failure("createCustomer", "Failed to create customer. Please try again.")
    ELSE IF auth.role \notin {"masterAdmin", "financer"}
    THEN Failure("createCustomer", "Permission denied")
    ELSE IF findExistingCustomer(customers, customerData.phone,
                                 customerData.aadharNumber) # NoRecord
    THEN Failure("createCustomer", "Customer already exists")
    ELSE IF cm.currentUser = NoUser
    THEN Failure("createCustomer", "Failed to create customer. Please try again.")
    ELSE [op |-> "createCustomer", user |-> currentUser, ok |-> TRUE,
          customer |->
              Spread(customerData,
                     [id |-> keyGen["customers"],
                      financerId |->
                          IF cm.currentUser.role = "financer"
                          THEN cm.currentUser.id
                          ELSE IF ~Falsy(cm.currentUser.financerId)
                          THEN cm.currentUser.financerId
                          ELSE customerData.financerId])]

CreateCustomer(customerData) ==
    LET r == createCustomer(db["customers"], customerData)
    IN  /\ result' = [data |-> customerData] @@ r
        /\ db' = Stored(r)
        /\ UNCHANGED <<currentUser, keyGen, given, txq, calls, issued, restore,
                       others>>

\* customer 1 of tenant 1 is in the store; AuthSystem holds the session it
\* found, if any, CustomerManager was constructed with or without
\* authSystem, and the open request of FinanceDB is over or still pending
InitPatch ==
    /\ currentUser = NoUser
    /\ db = [LeftBy({1}, 1 :> 1) EXCEPT
                !["customers"][1] = [phone |-> 1, aadharNumber |-> 1] @@ @]
    /\ keyGen = Generators(db)
    /\ given = Keys(db)
    /\ txq = << >>
    /\ calls = << >>
    /\ issued = 0
    /\ restore = NoRestore
    /\ result = NoResult
    /\ now = 1
    /\ auth \in Sessions
    /\ patches = {}
    /\ \E authDefined \in BOOLEAN : cm = Constructed(authDefined)
    /\ probe = NoProbe
    /\ idb \in {Opened, Opening(FALSE)}
    /\ codec = NoCodec

NextPatch ==
    \/ \E u \in Sessions : SetCurrentUser(u)
    \/ \E i \in Ids : \E u \in Patches : UpdateCustomer(i, u)
    \/ \E d \in CustomerInputs : CreateCustomer(d)

\* createCustomer and updateCustomer calls on the customers store
SpecPatch == InitPatch /\ [][NextPatch]_vars

\* ------------------------------------------------------ EncryptionManager

\* the password parameter left out (undefined)
NoPassword == "undefined"

\* password = 'default-finance-key-2025'
Password(password) ==
    IF password = NoPassword THEN "default-finance-key-2025" ELSE password

Passwords == {NoPassword, "default-finance-key-2025", "tenant-key"}

\* the texts handed to encrypt: well-formed strings, one of them made of
\* base64 characters only (atob accepts it), one not
Texts == {[kind |-> "text", chars |-> "MH12", base64 |-> TRUE],
          [kind |-> "text", chars |-> "MH 12 #7", base64 |-> FALSE]}

\* the objects handed to encryptObject
Objects == {[kind |-> "object", name |-> "Acme", financerId |-> 1],
            [kind |-> "object", name |-> "Zen", financerId |-> 2]}

\* the random values of crypto.getRandomValues
Randoms == {1, 2}

\* a call that returns v
Return(v) == [throws |-> "nothing", value |-> v]

\* JSON.stringify(obj): the JSON text of obj; its braces and quotes are no
\* base64 characters
stringify(obj) == [kind |-> "text", json |-> obj, base64 |-> FALSE]

\* JSON.parse(json): the object of a JSON text; any other text throws
parse(json) ==
    IF json.kind = "text" /\ "json" \in DOMAIN json
    THEN Return(json.json)
    ELSE [throws |-> "SyntaxError"]

\* whether base64ToArrayBuffer (atob) accepts the string
IsBase64(v) == v.kind = "blob" \/ (v.kind = "text" /\ v.base64)

\* encrypt(text, password), with the random salt and iv drawn: the base64 of
\* salt + iv + AES-GCM ciphertext under the key derived from password and
\* salt.  Where crypto.subtle is undefined deriveKey throws and the catch
\* returns the text
encrypt(text, password, salt, iv) ==
    IF ~codec.subtle
    THEN Return(text)
    ELSE Return([kind |-> "blob", salt |-> salt, iv |-> iv,
                 key |-> Password(password), sealed |-> text, intact |-> TRUE])

\* decrypt that hands back what it was given
decryptAsIs(encrypted, password) == Return(encrypted)

\* decrypt(encryptedData, password): atob throws on a string that is not
\* base64, deriveKey throws without crypto.subtle, crypto.subtle.decrypt
\* throws when the tag does not verify (other key, altered bytes, a string
\* that is no blob); the catch returns the argument
decrypt(encrypted, password) ==
    IF ~IsBase64(encrypted) THEN Return(encrypted)
    ELSE IF ~codec.subtle THEN Return(encrypted)
    ELSE IF /\ encrypted.kind = "blob"
            /\ encrypted.intact
            /\ encrypted.key = Password(password)
         THEN Return(encrypted.sealed)
    ELSE Return(encrypted)

\* encryptObject(obj, password)
encryptObject(obj, password, salt, iv) == encrypt(stringify(obj), password, salt, iv)

\* decryptObject(encryptedData, password): null when the JSON does not parse
decryptObject(encrypted, password) ==
    LET json == decrypt(encrypted, password).value
        obj == parse(json)
    IN  IF obj.throws = "nothing" THEN obj ELSE Return([kind |-> "null"])

\* one use of the codec: an item is encrypted under p, the blob is stored,
\* perhaps altered, and decrypted under q
InitCodec ==
    /\ currentUser = NoUser
    /\ db = LeftBy({}, << >>)
    /\ keyGen = Generators(db)
    /\ given = Keys(db)
    /\ txq = << >>
    /\ calls = << >>
    /\ issued = 0
    /\ restore = NoRestore
    /\ result = NoResult
    /\ now = 1
    /\ auth = NoUser
    /\ patches = {}
    /\ cm = Constructed(TRUE)
    /\ probe = NoProbe
    /\ idb = Opened
    /\ \E subtle \in BOOLEAN : \E item \in Texts \cup Objects : \E p \in Passwords :
           codec = [pc |-> "start", subtle |-> subtle, item |-> item, p |-> p]

CodecStep(c) ==
    /\ codec' = c
    /\ UNCHANGED <<currentUser, db, keyGen, given, txq, calls, issued, restore,
                   result, cm, probe, idb, now, auth, patches>>

Encrypt(salt, iv) ==
    /\ codec.pc = "start"
    /\ codec.item.kind = "text"
    /\ CodecStep([pc |-> "encrypted", altered |-> FALSE,
                  blob |-> encrypt(codec.item, codec.p, salt, iv)] @@ codec)

EncryptObject(salt, iv) ==
    /\ codec.pc = "start"
    /\ codec.item.kind = "object"
    /\ CodecStep([pc |-> "encrypted", altered |-> FALSE,
                  blob |-> encryptObject(codec.item, codec.p, salt, iv)] @@ codec)

\* the stored blob is altered
Tamper ==
    /\ codec.pc = "encrypted"
    /\ ~codec.altered
    /\ codec.blob.value.kind = "blob"
    /\ CodecStep([codec EXCEPT !.altered = TRUE, !.blob.value.intact = FALSE])

Decrypt(q) ==
    /\ codec.pc = "encrypted"
    /\ codec.item.kind = "text"
    /\ CodecStep([pc |-> "decrypted", q |-> q,
                  out |-> decrypt(codec.blob.value, q)] @@ codec)

DecryptObject(q) ==
    /\ codec.pc = "encrypted"
    /\ codec.item.kind = "object"
    /\ CodecStep([pc |-> "decrypted", q |-> q,
                  out |-> decryptObject(codec.blob.value, q)] @@ codec)

NextCodec ==
    \/ \E salt, iv \in Randoms : Encrypt(salt, iv)
    \/ \E salt, iv \in Randoms : EncryptObject(salt, iv)
    \/ Tamper
    \/ \E q \in Passwords : Decrypt(q)
    \/ \E q \in Passwords : DecryptObject(q)

SpecCodec == InitCodec /\ [][NextCodec]_vars

\* ------------------------------------------------------------------ claims

\* the calls in flight and the call that has just ended
Calls == Values(calls) \cup (IF result.op = "settled" THEN {result.call} ELSE {})

\* the audit entry of call cr is in auditLog and names cr's action, store and
\* record id
Audited(cr) ==
    /\ cr.audit = "persisted"
    /\ cr.auditKey \in DOMAIN db["auditLog"]
    /\ LET e == db["auditLog"][cr.auditKey] IN
       /\ e.action = cr.op
       /\ e.target = cr.store
       /\ e.targetId = cr.key

\* C1: whenever the promise of an add, update or delete has resolved, the
\* audit entry of that call (same action, collection and record id) is already
\* in auditLog.
C1_AuditedBeforeResolved ==
    \A cr \in Calls : cr.state = "resolved" => Audited(cr)

\* C2: a call whose audit entry could not be appended reports failure and its
\* mutation is not in the store once the call is over.
C2_AuditFailureRollsBack ==
    \A cr \in Calls :
        (cr.audit = "failed" /\ cr.state # "pending")
            => (cr.state = "rejected" /\ ~cr.applied)

\* C3: auditLog holds the entry of a call only if the mutation of that call
\* persisted: no call whose request was rejected has its entry persisted.
C3_NoAuditWithoutMutation ==
    \A cr \in Calls : cr.audit = "persisted" => cr.state # "rejected"

\* the stores whose records carry a financerId
BusinessStores == StoreNames \ {"auditLog"}

\* every record of a business store in the listing belongs to tenant t
ScopedTo(out, t) ==
    \A s \in BusinessStores : \A r \in out[s] : Field(r, "financerId") = t

\* C4: no listing handed to a financer or an employee (getAll with or without
\* its financerId argument, getAllCustomers, searchCustomers) holds a record
\* of a tenant other than the caller's.
C4_ListingsTenantScoped ==
    (/\ result.op \in {"getAll", "getAllCustomers", "searchCustomers"}
     /\ result.user.role \in {"financer", "employee"})
        => ScopedTo(result.out, TenantOf(result.user))

\* the reply of getCustomer for id, had the customers store no record id
WithoutTheRecord(id) == getCustomer(Without(db["customers"], id), id) @@ [id |-> id]

\* customer id exists and belongs to a tenant other than u's
Foreign(u, id) ==
    /\ id \in DOMAIN db["customers"]
    /\ Field(db["customers"][id], "financerId") # TenantOf(u)

AccessFilter(identity, record) ==
    CASE identity.role = "masterAdmin" -> TRUE
      [] identity.role \in {"financer", "employee"} ->
             record.financerId = TenantOf(identity)
      [] OTHER -> FALSE

\* C6: canAccessCustomer is the access filter: true for masterAdmin, true for
\* a financer or employee exactly when the record's financerId is the
\* identity's tenant, false for no identity or an unknown role.
C6_AccessFilter ==
    probe.asked => probe.visible = AccessFilter(cm.currentUser, probe.record)

\* C6 witness: an employee was granted a record of its financer.
C6_Witness ==
    /\ probe.asked
    /\ probe.visible
    /\ cm.currentUser.role = "employee"

\* C7: getAuditLogs hands an empty list, and no error, to every caller that
\* is not masterAdmin, the null user included, whatever auditLog holds.
C7_AuditLogsHidden ==
    (result.op = "getAuditLogs" /\ result.user.role # "masterAdmin")
        => (result.ok /\ result.out = Only("auditLog", {}))

\* C7 witness: getAuditLogs was called with no current user on a store that
\* holds audit entries.
C7_Witness ==
    /\ result.op = "getAuditLogs"
    /\ result.user = NoUser
    /\ DOMAIN db["auditLog"] # {}

\* C8: backup() and getAll('auditLog') called by a user that is not
\* masterAdmin return no audit entry and no record of another tenant.
C8_EveryReadFiltered ==
    (result.op \in {"backup", "getAll"} /\ result.user.role # "masterAdmin")
        => (/\ result.out["auditLog"] = {}
            /\ ScopedTo(result.out, TenantOf(result.user)))

\* C9: the audit log is append-only: every entry in auditLog before a step is
\* in auditLog after it, unchanged.
C9_AuditAppendOnly ==
    [][\A k \in DOMAIN db["auditLog"] :
           /\ k \in DOMAIN db'["auditLog"]
           /\ db'["auditLog"][k] = db["auditLog"][k]]_vars

\* the transaction that runs next on store s
FirstOn(s) == txq[CHOOSE j \in 1..Len(txq) : txq[j].store = s /\ CanRun(j)]

\* C10: every key that enters auditLog is assigned by the trail (the record
\* stored carried no id of its own) and is the next number of the trail, so
\* the keys are strictly increasing, gap-free and never used twice.
C10_TrailAssignsNumbers ==
    [][\A k \in DOMAIN db'["auditLog"] \ DOMAIN db["auditLog"] :
           /\ Falsy(Field(FirstOn("auditLog").value, "id"))
           /\ k = keyGen["auditLog"]]_vars

\* the step runs the request of call c: its promise settles
Requested(c) ==
    /\ calls[c].state = "pending"
    /\ c \notin DOMAIN calls' \/ calls'[c].state # "pending"

\* the transaction that holds the request of call c
RequestOf(c) ==
    txq[CHOOSE k \in 1..Len(txq) : txq[k].call = c /\ txq[k].kind = "request"]

\* C11: the id an add gives to a new record was never the id of a record of
\* that store before, whether the earlier record was deleted or not and
\* whether or not the caller put an id in the data.
C11_IdsNeverReused ==
    [][\A c \in DOMAIN calls :
           (calls[c].op = "ADD" /\ Requested(c))
               => LET s == calls[c].store IN
                  (DOMAIN db'[s] \ DOMAIN db[s]) \cap given[s] = {}]_vars

\* C17: an update of an existing record merges: every field of the data
\* passed has the value passed, every other field of the stored record keeps
\* its value.
C17_UpdateMerges ==
    [][\A c \in DOMAIN calls :
           (calls[c].op = "UPDATE" /\ Requested(c))
               => LET t == RequestOf(c)
                      id == Field(t.value, "id")
                      m == db[t.store]
                  IN  id \in DOMAIN m
                          => \A f \in DOMAIN m[id] :
                                 /\ f \in DOMAIN db'[t.store][id]
                                 /\ db'[t.store][id][f] =
                                        IF f \in DOMAIN t.value THEN t.value[f]
                                        ELSE m[id][f]]_vars

\* the state in which the promise of call c is, after the step
EndedAs(c) == IF c \in DOMAIN calls' THEN calls'[c].state ELSE result'.call.state

\* C18: no update creates a record: the ids of the store are the same before
\* and after the request of an update, and an update of an id the store does
\* not hold is rejected.
C18_UpdateCreatesNothing ==
    [][\A c \in DOMAIN calls :
           (/\ calls[c].op = "UPDATE"
            /\ Requested(c)
            /\ ~Falsy(Field(RequestOf(c).value, "id")))
               => LET t == RequestOf(c) IN
                  /\ DOMAIN db'[t.store] = DOMAIN db[t.store]
                  /\ t.value.id \notin DOMAIN db[t.store] => EndedAs(c) = "rejected"]_vars

\* C20: restore overwrites nothing: when the add restore waits for carries an
\* id the store already holds, the record under that id is the same after the
\* request as before.
C20_RestoreKeepsLiveRecords ==
    [][\A c \in DOMAIN calls :
           (restore.status = "running" /\ restore.wait = c /\ Requested(c))
               => LET t == RequestOf(c)
                      id == Field(t.value, "id")
                  IN  id \in DOMAIN db[t.store]
                          => /\ id \in DOMAIN db'[t.store]
                             /\ db'[t.store][id] = db[t.store][id]]_vars

\* C20 witness: restore ended in its catch block because the customers store
\* already held the id of the record it replayed.
C20_Witness ==
    /\ restore.status = "failed"
    /\ result.op = "settled"
    /\ result.call.store = "customers"
    /\ result.call.state = "rejected"
    /\ result.call.key \in DOMAIN db["customers"]

\* C16: a get of a record by the identity that created it returns the record
\* as add stored it: the fields passed in, and the stamps of its creation.
C16_CreatedThenRead ==
    (/\ result.op = "getCustomer"
     /\ result.id \in DOMAIN db["customers"]
     /\ result.user.id = db["customers"][result.id]._createdBy)
        => (/\ result.ok
            /\ result.out["customers"] = {db["customers"][result.id]})

\* the vehicle number of a customer record as createCustomer stores it
VehicleNumber(r) ==
    IF "vehicle" \in DOMAIN r THEN r.vehicle.registrationNumber ELSE Undefined

\* C19: no two users share an e-mail address and no two customers share a
\* vehicle number: a create that would make two such records is rejected and
\* stores nothing.
C19_UniqueFields ==
    /\ \A a, b \in DOMAIN db["users"] :
           (a # b /\ ~Falsy(Field(db["users"][a], "email")))
               => Field(db["users"][a], "email") # Field(db["users"][b], "email")
    /\ \A a, b \in DOMAIN db["customers"] :
           (a # b /\ ~Falsy(VehicleNumber(db["customers"][a])))
               => VehicleNumber(db["customers"][a]) # VehicleNumber(db["customers"][b])

\* what encrypt / encryptObject was given as plaintext
Plaintext == IF codec.item.kind = "object" THEN stringify(codec.item) ELSE codec.item

\* C13: encrypt ends in an error when it fails and never returns the
\* plaintext it was given: what is stored as its output is not the
\* unencrypted text.
C13_EncryptNeverPlain ==
    codec.pc \in {"encrypted", "decrypted"}
        => (codec.blob.throws # "nothing" \/ codec.blob.value # Plaintext)

\* the blob was made by encrypt and is decrypted under another passphrase, or
\* was altered
Unauthentic ==
    /\ codec.pc = "decrypted"
    /\ codec.blob.value.kind = "blob"
    /\ codec.altered \/ Password(codec.q) # Password(codec.p)

\* C14: decrypt / decryptObject of a blob under another passphrase, or of an
\* altered blob, ends in an error and returns no value.
C14_DecryptAuthenticates ==
    Unauthentic => codec.out.throws # "nothing"

C12_NoCallOnNullHandle ==
    (result.op \in EngineCalls /\ result.handle = "null")
        => result.throws = "NotReadyError"

\* C21: a record of the backup that conflicts with a live record is skipped
\* and is not fatal: once restore has returned, every record of the backup it
\* did not replay is one whose id is held by a live record of its store
C21_RestoreSkipsConflicts ==
    restore.status \in {"complete", "failed"} =>
        \A i \in 1..Len(restore.todo) :
            restore.todo[i][2].id \in DOMAIN db[restore.todo[i][1]]

\* C22: backup returns, for every collection that exists when it is called,
\* exactly the records in it, with the current schema version: a backup of
\* the open store succeeds, carries this.version and, for each store the
\* database has, that store's records
C22_BackupOfWhatExists ==
    (result.op = "backupData" /\ idb.request = "done" /\ idb.connections > 0)
        => /\ result.ok
           /\ result.version = idb.version
           /\ \A s \in DOMAIN db : result.data[s] = Values(db[s])

\* C23: a repair of missing collections raises the schema version by exactly
\* one, however many collections are missing
C23_RepairBumpsVersionOnce ==
    [][(/\ result'.op \in {"onerror", "runSelfHealing"}
        /\ idb.handle = "set"
        /\ HealedStores \ DOMAIN db # {})
           => idb'.version = idb.version + 1]_vars

\* C24: when open fails, re-initialisation is attempted at most once: after
\* two failures in a row no open request is outstanding
C24_AtMostOneRetry ==
    idb.failures >= 2 => idb.request # "pending"

\* C25: once open has completed successfully, every one of the six
\* collections exists, auditLog included
C25_OpenLeavesSixStores ==
    (idb.connections > 0 /\ idb.request = "done") => StoreNames \subseteq DOMAIN db

\* C30: init() called again on the open store, and the success of its
\* request, change neither this.version nor the stores nor any record, and
\* this.db stays a handle
C30_OpenIdempotent ==
    [][(idb.connections > 0 /\ result'.op \in {"init", "onsuccess"})
           => /\ idb'.version = idb.version
              /\ db' = db
              /\ idb'.handle = "set"]_vars

\* C30 witness: the store was opened a second time while it was open
C30_Witness ==
    /\ result.op = "onsuccess"
    /\ idb.connections = 2
    /\ DOMAIN db = StoreNames

\* C26: the provenance fields are set by the engine, never by the caller:
\* whatever updates customer 1 has gone through, its _createdBy and
\* _timestamp are those of its creation, by masterAdmin at time 1
C26_ProvenanceFromEngine ==
    1 \in DOMAIN db["customers"] =>
        /\ Field(db["customers"][1], "_createdBy") = masterAdmin.id
        /\ Field(db["customers"][1], "_timestamp") = 1

C27_AuditCarriesUser ==
    [][\A k \in (Len(txq) + 1)..Len(txq') :
           (txq'[k].kind = "audit" /\ auth # NoUser)
               => /\ txq'[k].value.userId = auth.id
                  /\ txq'[k].value.userRole = auth.role
                  /\ txq'[k].value.action = calls'[txq'[k].call].op]_vars

\* C29: updateCustomer calls with patches on disjoint fields all land: the
\* stored customer holds every field of every patch given for it
C29_PatchesAllStored ==
    \A p \in patches :
        p.id \in DOMAIN db["customers"] =>
            \A f \in DOMAIN p.updates :
                Field(db["customers"][p.id], f) = p.updates[f]

\* C31: after the database has been opened successfully, isReady becomes
\* true in the end, whether the open upgraded or found the store at the
\* current version
C31_ReadyAfterOpen ==
    (idb.connections > 0) ~> idb.isReady

\* C32: login with the name and password of an active user succeeds and
\* makes that user the current user of AuthSystem and of FinanceDB; login
\* succeeds for nobody else
C32_LoginOfActiveUser ==
    result.op = "login" =>
        /\ result.ok <=> result.id \in DOMAIN db["users"]
        /\ result.ok => (auth.id = result.id /\ currentUser = auth)

\* C33: the gate of CustomerManager opens: an operation that has come back
\* found isReady true
C33_GateOpens ==
    result.op \in {"getAllCustomers", "searchCustomers", "getCustomer"}
        => cm.isReady

\* C34: after a login the three components hold the same user
C34_OneIdentity ==
    result.op = "login" => (currentUser = auth /\ cm.currentUser = auth)

C37_MasterAdminExists ==
    auth # Unconstructed =>
        /\ "users" \in DOMAIN db
        /\ \E u \in Values(db["users"]) : Field(u, "role") = "masterAdmin"

\* C38: restoring a backup into an empty store reproduces it: when restore
\* has returned and its transactions are over, every store holds exactly the
\* records that were backed up, stamps included, and auditLog no entry more
C38_RestoreReproduces ==
    (restore.status \in {"complete", "failed"} /\ txq = << >>)
        => \A s \in StoreNames : db[s] = LeftBy({1}, 1 :> 2)[s]

====
